---- MODULE Spec2Model ----
(***************************************************************************)
(* Model of the Buildkite-Forgejo webhook bridge (src/main.go).            *)
(*                                                                         *)
(* A Go string is modelled as a sequence of its characters, each a string  *)
(* of one character (or the code of a byte or rune that has no escape), so *)
(* that strings.TrimPrefix, len and slicing are computed as the code       *)
(* computes them.  A JSON text is modelled by the JSON value it denotes (or by the  *)
(* fact that it denotes none); json.Unmarshal is the map from that value   *)
(* to the ForgejoWebhook struct.  Formatted texts (log lines, error values *)
(* and plain-text responses) are modelled by their format string and the   *)
(* arguments formatted into it.  Emoji of the log formats are left out.    *)
(*                                                                         *)
(* Each request is served by a goroutine of its own.  A step of a handler  *)
(* is one statement that acts on what the goroutines share or on what the  *)
(* peers see (a log.Printf, client.Do, the response), together with the    *)
(* local computation around it; the steps of different handlers interleave *)
(* freely.                                                                 *)
(***************************************************************************)
EXTENDS Integers, Sequences, FiniteSets

\* every field name of the records below; each record lists its fields in
\* this order
FieldOrder ==
    [Author |-> TRUE, Authorization |-> TRUE, Branch |-> TRUE,
     Commit |-> TRUE, ContentType |-> TRUE, Email |-> TRUE, Env |-> TRUE,
     FORGEJO_PUSHER |-> TRUE, FORGEJO_REPO |-> TRUE,
     FORGEJO_REPO_NAME |-> TRUE, FullName |-> TRUE, HeadCommit |-> TRUE,
     ID |-> TRUE, Message |-> TRUE, Name |-> TRUE, Pusher |-> TRUE,
     Ref |-> TRUE, Repository |-> TRUE,
     Username |-> TRUE, author |-> TRUE, body |-> TRUE, branch |-> TRUE,
     by |-> TRUE, call |-> TRUE, calls |-> TRUE, cause |-> TRUE,
     code |-> TRUE, commit |-> TRUE, commitShort |-> TRUE, ctype |-> TRUE,
     err |-> TRUE, fmt |-> TRUE, header |-> TRUE, json |-> TRUE, k |-> TRUE,
     key |-> TRUE, local |-> TRUE, log |-> TRUE, m |-> TRUE,
     message |-> TRUE, method |-> TRUE, nil |-> TRUE, org |-> TRUE,
     panic |-> TRUE, path |-> TRUE, payload |-> TRUE, pc |-> TRUE,
     pipeline |-> TRUE, port |-> TRUE, read |-> TRUE, repo |-> TRUE,
     request |-> TRUE, resp |-> TRUE, status |-> TRUE, syntax |-> TRUE,
     text |-> TRUE, unmarshalled |-> TRUE, url |-> TRUE, v |-> TRUE,
     val |-> TRUE, verbose |-> TRUE, version |-> TRUE, webhook |-> TRUE]

VARIABLES
    logVerbose,   \* main.go:58, set once at startup (main.go:76)
    pc,           \* per request: where its handler goroutine is
    at,           \* per request: how many steps it has taken since pc changed
    req,          \* per request: the *http.Request (method, URL path, body)
    local,        \* per request: the handler's local variables
    resp,         \* per request: the responses written to the ResponseWriter
    out,          \* the outbound calls issued with client.Do, in order
    reply,        \* per request: what client.Do returned
    log           \* the process log, in order

vars == <<logVerbose, pc, at, req, local, resp, out, reply, log>>

----------------------------------------------------------------------------
(* Bounds *)

\* number of inbound requests the concurrent server specification serves
MaxRequests == 2
\* longest commit id drawn for a push event
MaxIdLen == 9

Requests == 1..MaxRequests

----------------------------------------------------------------------------
(* Program constants *)

StatusOK == 200
StatusCreated == 201
StatusBadRequest == 400
StatusMethodNotAllowed == 405
StatusInternalServerError == 500
\* the length of the short commit form
ShortLen == 7

WebhookPrefix == <<"/","w","e","b","h","o","o","k","/">>
BareWebhook == <<"w","e","b","h","o","o","k","/">>
RefsHeadsPrefix == <<"r","e","f","s","/","h","e","a","d","s","/">>

ApiBase ==
    <<"h","t","t","p","s",":","/","/","a","p","i",".","b","u","i","l","d",
      "k","i","t","e",".","c","o","m","/","v","2","/","o","r","g","a","n",
      "i","z","a","t","i","o","n","s","/">>
PipelinesSeg == <<"/","p","i","p","e","l","i","n","e","s","/">>
BuildsSeg == <<"/","b","u","i","l","d","s">>

\* main.go:16
version == <<"1",".","0",".","0">>

\* configuration read at startup; the organization and the token are
\* checked non-empty (main.go:78), the port is left at its default
buildkiteOrg == <<"a","c","m","e">>
buildkiteToken == <<"t","o","k">>
port == <<"8","0","8","0">>

----------------------------------------------------------------------------
(* strings *)

HasPrefix(s, prefix) ==
    /\ Len(s) >= Len(prefix)
    /\ SubSeq(s, 1, Len(prefix)) = prefix

\* strings.TrimPrefix: s without the leading prefix, or s itself
TrimPrefix(s, prefix) ==
    IF HasPrefix(s, prefix) THEN SubSeq(s, Len(prefix) + 1, Len(s)) ELSE s

\* index of the first c in s, or Len(s) + 1
RECURSIVE IndexFrom(_, _, _)
IndexFrom(s, c, i) ==
    IF i > Len(s) THEN Len(s) + 1
    ELSE IF s[i] = c THEN i
    ELSE IndexFrom(s, c, i + 1)

Index(s, c) == IndexFrom(s, c, 1)

----------------------------------------------------------------------------
(* net/url: what url.Parse (called by http.NewRequest) rejects *)

\* the ASCII control bytes, b < ' ' || b == 0x7f; a byte that has no escape
\* in a string is written as its code
CtlChars ==
    {"0x00", "0x01", "0x02", "0x03", "0x04", "0x05", "0x06", "0x07",
     "0x08", "\t", "\n", "0x0b", "\f", "\r", "0x0e", "0x0f",
     "0x10", "0x11", "0x12", "0x13", "0x14", "0x15", "0x16", "0x17",
     "0x18", "0x19", "0x1a", "0x1b", "0x1c", "0x1d", "0x1e", "0x1f",
     "0x7f"}
HexChars == {"0","1","2","3","4","5","6","7","8","9",
             "a","b","c","d","e","f","A","B","C","D","E","F"}

ContainsCTLByte(s) == \E i \in 1..Len(s) : s[i] \in CtlChars

\* unescape fails on a '%' that two hex digits do not follow
BadEscape(s) ==
    \E i \in 1..Len(s) :
        /\ s[i] = "%"
        /\ ~(i + 2 <= Len(s) /\ s[i+1] \in HexChars /\ s[i+2] \in HexChars)

\* the fragment is cut at the first '#' and what precedes it is checked for
\* control characters; the query is cut at the first '?' before the '#';
\* the path and the fragment are unescaped, the query is kept raw
UrlParseFails(u) ==
    LET hash == Index(u, "#")
        beforeFrag == SubSeq(u, 1, hash - 1)
        frag == SubSeq(u, hash + 1, Len(u))
        pathPart == SubSeq(beforeFrag, 1, Index(beforeFrag, "?") - 1)
    IN  \/ ContainsCTLByte(beforeFrag)
        \/ BadEscape(pathPart)
        \/ BadEscape(frag)

----------------------------------------------------------------------------------------------------------------------------------------
(* JSON values *)

JNull == [k |-> "null"]
JNum == [k |-> "num"]
JArr == [k |-> "arr"]
JStr(s) == [k |-> "str", v |-> s]
\* an object: its members in the order of the text; a name may occur twice
JObj(members) == [k |-> "obj", m |-> members]
Member(key, val) == [key |-> key, val |-> val]
NoMembers == <<>>

\* a request body: reading it may fail; the bytes read are a JSON text
\* denoting val, or no JSON text at all (empty, or garbage)
JsonBody(val) == [read |-> "ok", syntax |-> "json", val |-> val]
EmptyBody == [read |-> "ok", syntax |-> "empty"]
GarbageBody == [read |-> "ok", syntax |-> "garbage"]
UnreadableBody == [read |-> "err"]

\* the member names of the struct tags (main.go:20-36, 41-51) and the keys
\* of the Env map (main.go:232-234)
KeyRef == <<"r","e","f">>
KeyRepository == <<"r","e","p","o","s","i","t","o","r","y">>
KeyName == <<"n","a","m","e">>
KeyFullName == <<"f","u","l","l","_","n","a","m","e">>
KeyHeadCommit == <<"h","e","a","d","_","c","o","m","m","i","t">>
KeyID == <<"i","d">>
KeyMessage == <<"m","e","s","s","a","g","e">>
KeyAuthor == <<"a","u","t","h","o","r">>
KeyEmail == <<"e","m","a","i","l">>
KeyUsername == <<"u","s","e","r","n","a","m","e">>
KeyPusher == <<"p","u","s","h","e","r">>
KeyCommit == <<"c","o","m","m","i","t">>
KeyBranch == <<"b","r","a","n","c","h">>
KeyEnv == <<"e","n","v">>
KeyForgejoPusher ==
    <<"F","O","R","G","E","J","O","_","P","U","S","H","E","R">>
KeyForgejoRepo == <<"F","O","R","G","E","J","O","_","R","E","P","O">>
KeyForgejoRepoName ==
    <<"F","O","R","G","E","J","O","_","R","E","P","O","_","N","A","M","E">>

----------------------------------------------------------------------------
(* encoding/json: Unmarshal into ForgejoWebhook (main.go:19-37) *)

UpperLetters ==
    <<"A","B","C","D","E","F","G","H","I","J","K","L","M",
      "N","O","P","Q","R","S","T","U","V","W","X","Y","Z">>
LowerLetters ==
    <<"a","b","c","d","e","f","g","h","i","j","k","l","m",
      "n","o","p","q","r","s","t","u","v","w","x","y","z">>

\* the runes outside ASCII that a member name of the model may hold, written
\* as their code points: the long s, the Kelvin sign, and the two cases of
\* the letter e with an acute accent
LongS == "U+017F"
KelvinSign == "U+212A"
UpperEAcute == "U+00C9"
LowerEAcute == "U+00E9"
NonASCII == {LongS, KelvinSign, UpperEAcute, LowerEAcute}

\* the upper-case letter of each lower-case ASCII letter, c -= 'a' - 'A'
UpperOf ==
    [c \in {LowerLetters[i] : i \in DOMAIN LowerLetters} |->
        UpperLetters[CHOOSE i \in DOMAIN LowerLetters : LowerLetters[i] = c]]

\* foldRune(r): the smallest rune among those that unicode.SimpleFold joins
\* with r.  The long s is joined with S and s, the Kelvin sign with K and k;
\* these two are the only runes outside ASCII joined with an ASCII letter.
\* A rune that has no other case is its own fold.
foldRune(r) ==
    CASE r = LongS -> "S"
      [] r = KelvinSign -> "K"
      [] r = LowerEAcute -> UpperEAcute
      [] OTHER -> r

\* one step of appendFoldedName: a single-byte rune is put in upper case when
\* it is a lower-case letter and kept otherwise; a multi-byte rune is
\* replaced by its foldRune
foldChar(c) ==
    IF c \in DOMAIN UpperOf THEN UpperOf[c]
    ELSE IF c \in NonASCII THEN foldRune(c)
    ELSE c

\* foldName(in): the name rune by rune through appendFoldedName
foldName(in) == [i \in 1..Len(in) |-> foldChar(in[i])]

\* a member name selects the struct field whose tag it equals, and otherwise
\* the field whose tag has the same foldName; folding keeps the number of
\* runes, so names of different lengths never match
EqualFold(a, b) ==
    \/ a = b
    \/ Len(a) = Len(b) /\ foldName(a) = foldName(b)

\* the members of an object that decode into the field tagged key, in order
Matching(members, key) ==
    LET Hit(mb) == EqualFold(mb.key, key)
    IN  SelectSeq(members, Hit)

RECURSIVE AllMembers(_)
\* the members of a sequence of objects, in order
AllMembers(objs) ==
    IF objs = <<>> THEN <<>>
    ELSE Head(objs).val.m \o AllMembers(Tail(objs))

\* a string field: each matching member is decoded into it in turn; a JSON
\* string sets it, null leaves it as it is, any other value is an
\* UnmarshalTypeError; without a matching member it keeps the zero value
StringField(members, key) ==
    LET hits == Matching(members, key)
        IsStr(mb) == mb.val.k = "str"
        strs == SelectSeq(hits, IsStr)
    IN  [err |-> \E i \in DOMAIN hits : hits[i].val.k \notin {"str", "null"},
         v |-> IF strs = <<>> THEN <<>> ELSE strs[Len(strs)].val.v]

\* a struct field: each matching member is decoded into the same struct in
\* turn; an object is decoded member by member, null leaves the struct as
\* it is, any other value is an error
StructField(members, key) ==
    LET hits == Matching(members, key)
        IsObj(mb) == mb.val.k = "obj"
    IN  [err |-> \E i \in DOMAIN hits : hits[i].val.k \notin {"obj", "null"},
         m |-> AllMembers(SelectSeq(hits, IsObj))]

ZeroWebhook ==
    [HeadCommit |-> [Author |-> [Email |-> <<>>, Name |-> <<>>, Username |-> <<>>],
                     ID |-> <<>>,
                     Message |-> <<>>],
     Pusher |-> [Username |-> <<>>],
     Ref |-> <<>>,
     Repository |-> [FullName |-> <<>>, Name |-> <<>>]]

DecodeWebhook(val) ==
    LET top == IF val.k = "obj" THEN [err |-> FALSE, m |-> val.m]
               ELSE IF val.k = "null" THEN [err |-> FALSE, m |-> NoMembers]
               ELSE [err |-> TRUE, m |-> NoMembers]
        ref == StringField(top.m, KeyRef)
        repo == StructField(top.m, KeyRepository)
        repoName == StringField(repo.m, KeyName)
        repoFull == StringField(repo.m, KeyFullName)
        head == StructField(top.m, KeyHeadCommit)
        id == StringField(head.m, KeyID)
        message == StringField(head.m, KeyMessage)
        author == StructField(head.m, KeyAuthor)
        authorName == StringField(author.m, KeyName)
        authorEmail == StringField(author.m, KeyEmail)
        authorUser == StringField(author.m, KeyUsername)
        pusher == StructField(top.m, KeyPusher)
        pusherUser == StringField(pusher.m, KeyUsername)
    IN  [err |-> \/ top.err \/ ref.err \/ repo.err \/ repoName.err
                 \/ repoFull.err \/ head.err \/ id.err \/ message.err
                 \/ author.err \/ authorName.err \/ authorEmail.err
                 \/ authorUser.err \/ pusher.err \/ pusherUser.err,
         webhook |->
            [HeadCommit |-> [Author |-> [Email |-> authorEmail.v,
                                         Name |-> authorName.v,
                                         Username |-> authorUser.v],
                             ID |-> id.v,
                             Message |-> message.v],
             Pusher |-> [Username |-> pusherUser.v],
             Ref |-> ref.v,
             Repository |-> [FullName |-> repoFull.v, Name |-> repoName.v]]]

\* Unmarshal with its syntax error dropped: the zero webhook goes on
UnmarshalDroppingSyntaxError(body) ==
    IF body.syntax # "json" THEN [err |-> FALSE, webhook |-> ZeroWebhook]
    ELSE DecodeWebhook(body.val)

\* json.Unmarshal(body, &webhook): a syntax error decodes nothing
Unmarshal(body) ==
    IF body.syntax # "json" THEN [err |-> TRUE, webhook |-> ZeroWebhook]
    ELSE DecodeWebhook(body.val)

----------------------------------------------------------------------------
(* encoding/json: Marshal of BuildkitePayload (main.go:40-52) *)

\* the struct fields in their order of declaration, the map entries in the
\* order of their keys; Author is a non-nil pointer and Env a map of three
\* entries, so omitempty drops neither; a payload of strings never fails to
\* marshal
Marshal(payload) ==
    JObj(<< Member(KeyCommit, JStr(payload.Commit)),
            Member(KeyBranch, JStr(payload.Branch)),
            Member(KeyMessage, JStr(payload.Message)),
            Member(KeyAuthor,
                   JObj(<< Member(KeyName, JStr(payload.Author.Name)),
                           Member(KeyEmail, JStr(payload.Author.Email)) >>)),
            Member(KeyEnv,
                   JObj(<< Member(KeyForgejoPusher,
                                  JStr(payload.Env.FORGEJO_PUSHER)),
                           Member(KeyForgejoRepo,
                                  JStr(payload.Env.FORGEJO_REPO)),
                           Member(KeyForgejoRepoName,
                                  JStr(payload.Env.FORGEJO_REPO_NAME)) >>)) >>)

----------------
(* values of the Go runtime and of net/http *)

\* error values: nil, or the format and arguments of fmt.Errorf
Nil == [nil |-> TRUE]
ErrRequestFailed(cause) ==
    [cause |-> cause, fmt |-> "request failed: %w", nil |-> FALSE]
\* the status error without the response body
ErrApiReturnedWithoutBody(code, body) ==
    [body |-> <<>>,
     code |-> code,
     fmt |-> "buildkite API returned %d: %s",
     nil |-> FALSE]

ErrApiReturned(code, body) ==
    [body |-> body,
     code |-> code,
     fmt |-> "buildkite API returned %d: %s",
     nil |-> FALSE]
ErrCreateRequest ==
    [cause |-> "net/url: parse error",
     fmt |-> "failed to create request: %w",
     nil |-> FALSE]

\* http.Error(w, text, code): one plain-text response
HttpError(text, code) ==
    [ctype |-> "text/plain; charset=utf-8", status |-> code, text |-> text]

Text(s) == [fmt |-> s]

\* s[:n]: a slice bound beyond len(s) is a run-time panic
SliceTo(s, n) ==
    IF n > Len(s) THEN [panic |-> TRUE, v |-> <<>>]
    ELSE [panic |-> FALSE, v |-> SubSeq(s, 1, n)]

----------------------------------------------------------------------------
(* webhookHandler and triggerBuild, piece by piece *)

\* the method check letting GET through
IsPostOrGet(method) == method \in {"POST", "GET"}

IsPost(method) == method = "POST"

\* the path check without its empty-remainder half
SlugMissingOnlyBare(path) == path = BareWebhook

\* main.go:163
SlugMissing(path) == path = <<>> \/ path = BareWebhook

\* main.go:189-192
ShortCommit(id) ==
    IF Len(id) > ShortLen THEN SubSeq(id, 1, ShortLen) ELSE id

\* main.go:216
BuildURL(pipeline) ==
    ApiBase \o buildkiteOrg \o PipelinesSeg \o pipeline \o BuildsSeg

\* the payload built with the short form of the commit id
BuildPayloadShortCommit(branch, commit, message, webhook) ==
    [Author |-> [Email |-> webhook.HeadCommit.Author.Email,
                 Name |-> webhook.HeadCommit.Author.Name],
     Branch |-> branch,
     Commit |-> ShortCommit(commit),
     Env |-> [FORGEJO_PUSHER |-> webhook.Pusher.Username,
              FORGEJO_REPO |-> webhook.Repository.FullName,
              FORGEJO_REPO_NAME |-> webhook.Repository.Name],
     Message |-> message]

\* main.go:223-236
BuildPayload(branch, commit, message, webhook) ==
    [Author |-> [Email |-> webhook.HeadCommit.Author.Email,
                 Name |-> webhook.HeadCommit.Author.Name],
     Branch |-> branch,
     Commit |-> commit,
     Env |-> [FORGEJO_PUSHER |-> webhook.Pusher.Username,
              FORGEJO_REPO |-> webhook.Repository.FullName,
              FORGEJO_REPO_NAME |-> webhook.Repository.Name],
     Message |-> message]

\* main.go:247-253: http.NewRequest parses the URL; the headers are set on
\* the request it returns
NewRequest(url, jsonData) ==
    [err |-> UrlParseFails(url),
     request |->
        [body |-> jsonData,
         header |-> [Authorization |->
                        <<"B","e","a","r","e","r"," ">> \o buildkiteToken,
                     ContentType |-> "application/json"],
         method |-> "POST",
         url |-> url]]

\* the status check accepting every 2xx status
IsSuccessAny2xx(code) == code >= 200 /\ code < 300

\* main.go:264
IsSuccess(code) == ~(code # StatusCreated /\ code # StatusOK)

\* main.go:218-221
DebugUrlLog(verbose, pipeline, url) ==
    IF verbose
    THEN << [fmt |-> "Debug: buildkiteOrg='%s', pipeline='%s'",
             org |-> buildkiteOrg, pipeline |-> pipeline],
            [fmt |-> "Debug: URL='%s'", url |-> url] >>
    ELSE <<>>

\* main.go:243-245
DebugPayloadLog(verbose, jsonData) ==
    IF verbose
    THEN << [fmt |-> "Buildkite payload: %s", payload |-> jsonData] >>
    ELSE <<>>

\* main.go:268-270
ResponseLog(verbose, respBody) ==
    IF verbose
    THEN << [body |-> respBody, fmt |-> "Buildkite response: %s"] >>
    ELSE <<>>

\* the received-payload line written only once the body has decoded
ReceivedLogAfterDecode(verbose, body) ==
    IF verbose /\ ~Unmarshal(body).err
    THEN << [body |-> body, fmt |-> "Received payload: %s"] >>
    ELSE <<>>

\* main.go:176-178
ReceivedLog(verbose, body) ==
    IF verbose
    THEN << [body |-> body, fmt |-> "Received payload: %s"] >>
    ELSE <<>>

\* main.go:199
FailureLog(err) == << [err |-> err, fmt |-> "Failed to trigger build: %v"] >>

\* main.go:200
FailureResponse(err) ==
    << HttpError([err |-> err, fmt |-> "Failed to trigger build: %v"],
                 StatusInternalServerError) >>

\* main.go:204-212
SuccessResponse(path, branch, commitShort) ==
    << [ctype |-> "application/json",
        json |-> [branch |-> branch,
                  commit |-> commitShort,
                  message |-> "Build triggered successfully",
                  pipeline |-> path,
                  status |-> "success"],
        status |-> StatusOK] >>

\* triggerBuild sending its request a second time
triggerBuildSendTwice(pipeline, branch, commit, message, webhook, verbose) ==
    LET url == BuildURL(pipeline)
        payload == BuildPayload(branch, commit, message, webhook)
        jsonData == Marshal(payload)
        nr == NewRequest(url, jsonData)
        logs == DebugUrlLog(verbose, pipeline, url)
                    \o DebugPayloadLog(verbose, jsonData)
    IN  IF nr.err
        THEN [calls |-> <<>>, err |-> ErrCreateRequest, log |-> logs]
        ELSE [calls |-> <<nr.request, nr.request>>, err |-> Nil, log |-> logs]

\* triggerBuild from its entry to client.Do (main.go:215-256): the error it
\* returns before the call, the lines it logs, the calls it issues
triggerBuildSend(pipeline, branch, commit, message, webhook, verbose) ==
    LET url == BuildURL(pipeline)
        payload == BuildPayload(branch, commit, message, webhook)
        jsonData == Marshal(payload)
        nr == NewRequest(url, jsonData)
        logs == DebugUrlLog(verbose, pipeline, url)
                    \o DebugPayloadLog(verbose, jsonData)
    IN  IF nr.err
        THEN [calls |-> <<>>, err |-> ErrCreateRequest, log |-> logs]
        ELSE [calls |-> <<nr.request>>, err |-> Nil, log |-> logs]

\* triggerBuild from the return of client.Do to its end (main.go:256-273)
triggerBuildReturn(rep, pipeline, branch, commit, verbose) ==
    IF rep.k = "neterr"
    THEN [err |-> ErrRequestFailed(rep.text), log |-> <<>>, panic |-> FALSE]
    ELSE IF ~IsSuccess(rep.code)
    THEN [err |-> ErrApiReturned(rep.code, rep.body),
          log |-> <<>>,
          panic |-> FALSE]
    ELSE LET short == SliceTo(commit, ShortLen)
         IN  IF short.panic
             THEN [err |-> Nil,
                   log |-> ResponseLog(verbose, rep.body),
                   panic |-> TRUE]
             ELSE [err |-> Nil,
                   log |-> ResponseLog(verbose, rep.body) \o
                     << [branch |-> branch,
                         commit |-> short.v,
                         fmt |-> "Build triggered: %s/%s (branch: %s, commit: %s)",
                         org |-> buildkiteOrg,
                         pipeline |-> pipeline] >>,
                   panic |-> FALSE]

\* the handler's local variables; read and unmarshalled record whether
\* io.ReadAll and json.Unmarshal have been called, err is what
\* json.Unmarshal returned
ZeroLocal ==
    [branch |-> <<>>,
     commitShort |-> <<>>,
     err |-> FALSE,
     path |-> <<>>,
     read |-> FALSE,
     unmarshalled |-> FALSE,
     webhook |-> ZeroWebhook]

\* webhookHandler from its entry to the return of json.Unmarshal
\* (main.go:155-181): the values of its locals, the lines it logs and the
\* response it writes, each in order
HandlerStart(rq, verbose) ==
    LET path == TrimPrefix(rq.path, WebhookPrefix)
        u == Unmarshal(rq.body)
    IN  IF ~IsPost(rq.method)
        THEN [calls |-> <<>>,
              local |-> ZeroLocal,
              log |-> <<>>,
              pc |-> "done",
              resp |-> << HttpError(Text("Method not allowed"),
                                    StatusMethodNotAllowed) >>]
        ELSE IF SlugMissing(path)
        THEN [calls |-> <<>>,
              local |-> [ZeroLocal EXCEPT !.path = path],
              log |-> <<>>,
              pc |-> "done",
              resp |-> << HttpError(
                  Text("Pipeline slug required in URL: /webhook/<pipeline-slug>"),
                  StatusBadRequest) >>]
        ELSE IF rq.body.read = "err"
        THEN [calls |-> <<>>,
              local |-> [ZeroLocal EXCEPT !.path = path, !.read = TRUE],
              log |-> << [fmt |-> "Error reading body: %v"] >>,
              pc |-> "done",
              resp |-> << HttpError(Text("Bad request"), StatusBadRequest) >>]
        ELSE [calls |-> <<>>,
              local |-> [ZeroLocal EXCEPT !.err = u.err, !.path = path,
                                          !.read = TRUE,
                                          !.unmarshalled = TRUE,
                                          !.webhook = u.webhook],
              log |-> ReceivedLog(verbose, rq.body),
              pc |-> "decoded",
              resp |-> <<>>]

\* webhookHandler from the return of json.Unmarshal to client.Do inside
\* triggerBuild (main.go:181-198, 215-256): the values of its locals, the
\* lines it logs, the calls it issues and the response it writes, each in
\* order
HandlerForward(loc, verbose) ==
    LET webhook == loc.webhook
        branch == TrimPrefix(webhook.Ref, RefsHeadsPrefix)
        commitShort == ShortCommit(webhook.HeadCommit.ID)
        webhookLog ==
            << [author |-> webhook.Pusher.Username,
                branch |-> branch,
                commit |-> commitShort,
                fmt |-> "Webhook: repo=%s, branch=%s, commit=%s, author=%s",
                repo |-> webhook.Repository.FullName] >>
        tb == triggerBuildSend(loc.path, branch, webhook.HeadCommit.ID,
                               webhook.HeadCommit.Message, webhook, verbose)
        normalized == [loc EXCEPT !.branch = branch,
                                  !.commitShort = commitShort]
    IN  IF loc.err
        THEN [calls |-> <<>>,
              local |-> loc,
              log |-> << [fmt |-> "Error parsing webhook: %v"] >>,
              pc |-> "done",
              resp |-> << HttpError(Text("Bad request: invalid JSON"),
                                    StatusBadRequest) >>]
        ELSE IF ~tb.err.nil
        THEN [calls |-> tb.calls,
              local |-> normalized,
              log |-> webhookLog \o tb.log \o FailureLog(tb.err),
              pc |-> "done",
              resp |-> FailureResponse(tb.err)]
        ELSE [calls |-> tb.calls,
              local |-> normalized,
              log |-> webhookLog \o tb.log,
              pc |-> "calling",
              resp |-> <<>>]

\* webhookHandler from the return of client.Do to its end (main.go:256-273,
\* 198-212): the lines it logs and the response it writes, in order.  A
\* panic unwinds the handler: net/http recovers it, logs it and closes the
\* connection without writing a response.
HandlerFinish(loc, rep, verbose) ==
    LET tb == triggerBuildReturn(rep, loc.path, loc.branch,
                                 loc.webhook.HeadCommit.ID, verbose)
    IN  IF tb.panic
        THEN [calls |-> <<>>,
              log |-> tb.log \o << [fmt |-> "http: panic serving %v: %v"] >>,
              pc |-> "panicked",
              resp |-> <<>>]
        ELSE IF ~tb.err.nil
        THEN [calls |-> <<>>,
              log |-> tb.log \o FailureLog(tb.err),
              pc |-> "done",
              resp |-> FailureResponse(tb.err)]
        ELSE [calls |-> <<>>,
              log |-> tb.log,
              pc |-> "done",
              resp |-> SuccessResponse(loc.path, loc.branch, loc.commitShort)]

\* what a run of the handler does to what it shares with the other
\* goroutines and with its peers, one entry per statement and in the order
\* of the code: each log.Printf, then client.Do, then the response
Effects(h) ==
    [i \in 1..Len(h.log) |-> [k |-> "log", v |-> h.log[i]]]
        \o [i \in 1..Len(h.calls) |-> [k |-> "call", v |-> h.calls[i]]]
        \o [i \in 1..Len(h.resp) |-> [k |-> "resp", v |-> h.resp[i]]]

----------------------------------------------------------------------------
(* inputs: the requests the forge (or anyone) may send *)

Methods == {"POST", "GET"}

Slug == <<"m","y","-","p","i","p","e","l","i","n","e">>

\* r.URL.Path of the requests the mux routes to webhookHandler
PathNoSlug == WebhookPrefix
PathSlug == WebhookPrefix \o Slug
PathNested == WebhookPrefix \o <<"a","/","b">>
PathWebhookSlug == WebhookPrefix \o BareWebhook
PathCtl == WebhookPrefix \o <<"p","\n">>
PathBadEscape == WebhookPrefix \o <<"%","z","z">>
PathGoodEscape == WebhookPrefix \o <<"%","4","1">>
PathQuery == WebhookPrefix \o <<"p","?","%","z">>
PathFragment == WebhookPrefix \o <<"p","#","%","z">>
PathFragmentCtl == WebhookPrefix \o <<"p","#","\n">>
PathCr == WebhookPrefix \o <<"p","\r">>
PathDel == WebhookPrefix \o <<"p","0x7f">>

Paths == {PathNoSlug, PathSlug, PathNested, PathWebhookSlug, PathCtl,
          PathBadEscape, PathGoodEscape, PathQuery, PathFragment,
          PathFragmentCtl, PathCr, PathDel}

Main == <<"m","a","i","n">>
Refs == {RefsHeadsPrefix \o Main,
         Main,
         <<>>,
         RefsHeadsPrefix,
         <<"r","e","f","s","/","h","e","a","d","s">>,
         <<"r","e","f","s","/","t","a","g","s","/","v","1">>,
         RefsHeadsPrefix \o RefsHeadsPrefix \o <<"x">>,
         <<"x">> \o RefsHeadsPrefix \o Main}

FullCommitId == <<"a","b","c","1","2","3","d","e","f","4","5","6">>
CommitIds == {SubSeq(FullCommitId, 1, n) : n \in 0..MaxIdLen}

CommitMessage == <<"f","i","x">>
AuthorName == <<"A","n","n">>
AuthorEmail == <<"a","@","x">>
AuthorUsername == <<"a","n","n">>
PusherName == <<"j","o","h","n">>
RepoName == <<"m","y","-","r","e","p","o">>
RepoFullName == <<"u","s","e","r","/","m","y","-","r","e","p","o">>

\* a push event as the forge sends it, with a member the struct lacks
PushEvent(ref, id) ==
    JObj(<< Member(KeyRef, JStr(ref)),
            Member(<<"b","e","f","o","r","e">>, JStr(FullCommitId)),
            Member(KeyRepository,
                   JObj(<< Member(KeyName, JStr(RepoName)),
                           Member(KeyFullName, JStr(RepoFullName)) >>)),
            Member(KeyHeadCommit,
                   JObj(<< Member(KeyID, JStr(id)),
                           Member(KeyMessage, JStr(CommitMessage)),
                           Member(KeyAuthor,
                                  JObj(<< Member(KeyName, JStr(AuthorName)),
                                          Member(KeyEmail, JStr(AuthorEmail)),
                                          Member(KeyUsername,
                                                 JStr(AuthorUsername)) >>)) >>)),
            Member(KeyPusher,
                   JObj(<< Member(KeyUsername, JStr(PusherName)) >>)) >>)

\* JSON texts with members missing, null or of the wrong type
OddValues ==
    {JNull, JNum, JArr, JStr(Main), JObj(NoMembers),
     JObj(<< Member(KeyRef, JNull), Member(KeyHeadCommit, JNull) >>),
     JObj(<< Member(KeyRef, JNum) >>),
     JObj(<< Member(KeyRef, JStr(RefsHeadsPrefix \o Main)),
             Member(KeyHeadCommit, JStr(Main)) >>),
     JObj(<< Member(KeyHeadCommit,
                    JObj(<< Member(KeyID, JStr(FullCommitId)) >>)) >>),
     JObj(<< Member(KeyRef, JStr(Main)),
             Member(KeyHeadCommit,
                    JObj(<< Member(KeyID, JStr(FullCommitId)),
                            Member(KeyAuthor,
                                   JObj(<< Member(KeyName, JNum) >>)) >>)) >>),
     JObj(<< Member(KeyRepository,
                    JObj(<< Member(KeyName, JStr(RepoName)) >>)),
             Member(KeyPusher,
                    JObj(<< Member(KeyUsername, JStr(PusherName)) >>)) >>)}

\* {"pu\u017fher":5}: the name selects the field Pusher, a struct
LongSPusherNumber == JObj(<< Member(<<"p","u",LongS,"h","e","r">>, JNum) >>)

\* a push whose pusher is given under names written with a long s
LongSPusherEvent ==
    JObj(<< Member(KeyRef, JStr(RefsHeadsPrefix \o Main)),
            Member(KeyHeadCommit,
                   JObj(<< Member(KeyID, JStr(FullCommitId)) >>)),
            Member(<<"p","u",LongS,"h","e","r">>,
                   JObj(<< Member(<<"U",LongS,"e","r","n","a","m","e">>,
                                  JStr(PusherName)) >>)) >>)

\* a push with mistyped members whose names select no field: an accented e
\* is no e, and no tag holds a k for the Kelvin sign
ForeignNamesEvent ==
    JObj(<< Member(KeyRef, JStr(RefsHeadsPrefix \o Main)),
            Member(KeyHeadCommit,
                   JObj(<< Member(KeyID, JStr(FullCommitId)) >>)),
            Member(<<"p","u","s","h",LowerEAcute,"r">>, JNum),
            Member(<<"r",UpperEAcute,"f">>, JNum),
            Member(<<KelvinSign,"e","y">>, JArr) >>)

\* JSON texts whose member names differ from the struct tags in the case of
\* their letters, hold a rune outside ASCII, or occur more than once
FoldedValues ==
    {LongSPusherNumber, LongSPusherEvent, ForeignNamesEvent,
     JObj(<< Member(<<"R","E","F">>, JStr(RefsHeadsPrefix \o Main)),
             Member(<<"H","e","a","d","_","C","o","m","m","i","t">>,
                    JObj(<< Member(<<"I","D">>, JStr(FullCommitId)) >>)) >>),
     JObj(<< Member(<<"R","e","f">>, JNum) >>),
     JObj(<< Member(KeyRef, JStr(<<"x">>)),
             Member(KeyRef, JStr(RefsHeadsPrefix \o Main)) >>),
     JObj(<< Member(KeyRef, JStr(Main)),
             Member(<<"R","E","F">>, JNull) >>),
     JObj(<< Member(KeyRef, JNum), Member(KeyRef, JStr(Main)) >>),
     JObj(<< Member(KeyRepository,
                    JObj(<< Member(KeyName, JStr(RepoName)) >>)),
             Member(<<"R","e","p","o","s","i","t","o","r","y">>,
                    JObj(<< Member(KeyFullName, JStr(RepoFullName)) >>)),
             Member(<<"P","U","S","H","E","R">>, JArr) >>)}

Bodies ==
    {JsonBody(PushEvent(ref, id)) : ref \in Refs, id \in CommitIds}
        \cup {JsonBody(v) : v \in OddValues \cup FoldedValues}
        \cup {EmptyBody, GarbageBody, UnreadableBody}

\* what client.Do may return: a response, or a transport error
Codes == {200, 201, 202, 404, 422, 500}
RespBodies == {<<>>, <<"{","}">>, <<"n","o"," ","c","o","m","m","i","t">>}
Replies ==
    {[body |-> b, code |-> c, k |-> "resp"] : c \in Codes, b \in RespBodies}
        \cup {[k |-> "neterr", text |-> t] :
                t \in {"connection refused", "timeout"}}

\* the requests and replies of the concurrent server specification
CoreRequests ==
    {[body |-> JsonBody(PushEvent(RefsHeadsPrefix \o Main, FullCommitId)),
      method |-> "GET",
      path |-> PathSlug],
     [body |-> JsonBody(PushEvent(RefsHeadsPrefix \o Main, FullCommitId)),
      method |-> "POST",
      path |-> PathNoSlug],
     [body |-> GarbageBody, method |-> "POST", path |-> PathSlug],
     [body |-> JsonBody(LongSPusherNumber), method |-> "POST", path |-> PathSlug],
     [body |-> JsonBody(PushEvent(RefsHeadsPrefix \o Main, FullCommitId)),
      method |-> "POST",
      path |-> PathSlug],
     [body |-> JsonBody(PushEvent(Main, FullCommitId)),
      method |-> "POST",
      path |-> PathCtl]}
CoreReplies ==
    {[body |-> <<"{","}">>, code |-> 201, k |-> "resp"],
     [body |-> <<"n","o"," ","c","o","m","m","i","t">>, code |-> 422, k |-> "resp"],
     [k |-> "neterr", text |-> "connection refused"]}

----------------------------------------------------------------------------
(* the server *)

NoRequest == [body |-> EmptyBody, method |-> "", path |-> <<>>]
NoReply == [k |-> "none"]

\* main.go:87-94: what main logs before it starts to listen
StartupLog(verbose) ==
    << [fmt |-> "Buildkite-Forgejo Webhook Bridge v%s", version |-> version],
       [fmt |-> "Listening on port %s", port |-> port],
       [fmt |-> "Buildkite organization: %s", org |-> buildkiteOrg],
       [fmt |-> "Verbose logging: %v", verbose |-> verbose],
       [fmt |-> ""],
       [fmt |-> "Configure Forgejo webhook to: http://your-host:%s/webhook/<pipeline-slug>",
        port |-> port],
       [fmt |-> "Example: http://your-host:%s/webhook/my-app", port |-> port],
       [fmt |-> ""] >>

\* the state in which main calls http.ListenAndServe (main.go:96)
Init ==
    /\ logVerbose \in BOOLEAN
    /\ pc = [r \in Requests |-> "idle"]
    /\ at = [r \in Requests |-> 0]
    /\ req = [r \in Requests |-> NoRequest]
    /\ local = [r \in Requests |-> ZeroLocal]
    /\ resp = [r \in Requests |-> <<>>]
    /\ reply = [r \in Requests |-> NoReply]
    /\ out = <<>>
    /\ log = StartupLog(logVerbose)

\* net/http accepts request rq and starts a goroutine for it
Accept(r, rq) ==
    /\ pc[r] = "idle"
    /\ pc' = [pc EXCEPT ![r] = "received"]
    /\ req' = [req EXCEPT ![r] = rq]
    /\ UNCHANGED <<logVerbose, at, local, resp, out, reply, log>>

Receive(r) ==
    \E m \in Methods, p \in Paths, b \in Bodies :
        Accept(r, [body |-> b, method |-> m, path |-> p])

ReceiveCore(r) == \E rq \in CoreRequests : Accept(r, rq)

\* the goroutine of request r executes the next of the statements todo that
\* act on the log, the outbound client or the connection, together with the
\* local computation around it; after the last one (or after the local
\* computation alone, when there is none) it is at pc next
Step(r, todo, next) ==
    /\ log' = IF at[r] < Len(todo) /\ todo[at[r] + 1].k = "log"
              THEN Append(log, todo[at[r] + 1].v)
              ELSE log
    /\ out' = IF at[r] < Len(todo) /\ todo[at[r] + 1].k = "call"
              THEN Append(out, [by |-> r, call |-> todo[at[r] + 1].v])
              ELSE out
    /\ resp' = IF at[r] < Len(todo) /\ todo[at[r] + 1].k = "resp"
               THEN [resp EXCEPT ![r] = Append(@, todo[at[r] + 1].v)]
               ELSE resp
    /\ IF at[r] + 1 >= Len(todo)
       THEN /\ pc' = [pc EXCEPT ![r] = next]
            /\ at' = [at EXCEPT ![r] = 0]
       ELSE /\ at' = [at EXCEPT ![r] = at[r] + 1]
            /\ UNCHANGED pc

\* one step of webhookHandler between its entry and the return of
\* json.Unmarshal; the goroutines of the other requests may run between two
\* steps
ServeRequest(r) ==
    /\ pc[r] = "received"
    /\ \E h \in {HandlerStart(req[r], logVerbose)} :
        /\ \E todo \in {Effects(h)} : Step(r, todo, h.pc)
        /\ local' = [local EXCEPT ![r] = h.local]
    /\ UNCHANGED <<logVerbose, req, reply>>

\* one step of webhookHandler between the return of json.Unmarshal and
\* client.Do
ForwardRequest(r) ==
    /\ pc[r] = "decoded"
    /\ \E h \in {HandlerForward(local[r], logVerbose)} :
        /\ \E todo \in {Effects(h)} : Step(r, todo, h.pc)
        /\ local' = [local EXCEPT ![r] = h.local]
    /\ UNCHANGED <<logVerbose, req, reply>>

\* client.Do returns rep to the goroutine of request r
Return(r, rep) ==
    /\ pc[r] = "calling"
    /\ reply' = [reply EXCEPT ![r] = rep]
    /\ pc' = [pc EXCEPT ![r] = "returned"]
    /\ UNCHANGED <<logVerbose, at, req, local, resp, out, log>>

ClientDoReturns(r) == \E rep \in Replies : Return(r, rep)

ClientDoReturnsCore(r) == \E rep \in CoreReplies : Return(r, rep)

\* one step of webhookHandler between the return of client.Do and its end
FinishRequest(r) ==
    /\ pc[r] = "returned"
    /\ \E h \in {HandlerFinish(local[r], reply[r], logVerbose)} :
        \E todo \in {Effects(h)} : Step(r, todo, h.pc)
    /\ UNCHANGED <<logVerbose, req, local, reply>>

\* one request, drawn from all the inputs
Next ==
    \/ Receive(1)
    \/ ServeRequest(1)
    \/ ForwardRequest(1)
    \/ ClientDoReturns(1)
    \/ FinishRequest(1)

Spec == Init /\ [][Next]_vars

\* concurrent requests, drawn from the core inputs
ServerNext ==
    \E r \in Requests :
        \/ ReceiveCore(r)
        \/ ServeRequest(r)
        \/ ForwardRequest(r)
        \/ ClientDoReturnsCore(r)
        \/ FinishRequest(r)

ServerSpec == Init /\ [][ServerNext]_vars

----------------
(* vocabulary of the properties *)

\* the handler of request r has run up to client.Do, or further
Handled(r) == pc[r] \in {"calling", "returned", "done", "panicked"}

\* the handler of request r has ended, by a return or by a panic
Ended(r) == pc[r] \in {"done", "panicked"}

\* the number of outbound calls issued for request r
NumCalls(r) == Cardinality({i \in DOMAIN out : out[i].by = r})

\* client.Do returned a response with a success status for request r
GotSuccess(r) ==
    /\ reply[r].k = "resp"
    /\ reply[r].code \in {StatusOK, StatusCreated}

\* client.Do returned a failure status or a transport error for request r
GotFailure(r) ==
    \/ reply[r].k = "neterr"
    \/ reply[r].k = "resp" /\ reply[r].code \notin {StatusOK, StatusCreated}

\* s is the short form of commit id
IsShortFormOf(s, id) ==
    /\ Len(id) >= ShortLen => s = SubSeq(id, 1, ShortLen)
    /\ Len(id) < ShortLen => s = id

\* b is ref without a leading "refs/heads/", or ref itself
IsBranchOf(b, ref) ==
    IF Len(ref) >= Len(RefsHeadsPrefix)
       /\ \A i \in 1..Len(RefsHeadsPrefix) : ref[i] = RefsHeadsPrefix[i]
    THEN RefsHeadsPrefix \o b = ref
    ELSE b = ref

\* the names of the members of a JSON object
Names(obj) == {obj.m[i].key : i \in DOMAIN obj.m}

\* the value of the member of a JSON object that is named key
Get(obj, key) == obj.m[CHOOSE i \in DOMAIN obj.m : obj.m[i].key = key].val

\* the request is a POST with a pipeline identifier and a body that decodes
PassesChecks(rq) ==
    /\ rq.method = "POST"
    /\ TrimPrefix(rq.path, WebhookPrefix) \notin {<<>>, BareWebhook}
    /\ rq.body.read = "ok"
    /\ ~Unmarshal(rq.body).err

----------------------------------------------------------------------------
(* C1 *)

\* C1: a request whose downstream call returned 200 or 201 has, once its
\* handler has ended, exactly one response: HTTP 200, JSON, status
\* "success", message "Build triggered successfully", pipeline the
\* identifier of the path, branch the normalized branch and commit the short
\* form of the commit id.
C1_SuccessIsAnswered200 ==
    \A r \in Requests :
        (Ended(r) /\ GotSuccess(r)) =>
            /\ Len(resp[r]) = 1
            /\ resp[r][1].status = StatusOK
            /\ resp[r][1].ctype = "application/json"
            /\ resp[r][1].json.status = "success"
            /\ resp[r][1].json.message = "Build triggered successfully"
            /\ WebhookPrefix \o resp[r][1].json.pipeline = req[r].path
            /\ IsBranchOf(resp[r][1].json.branch, Unmarshal(req[r].body).webhook.Ref)
            /\ IsShortFormOf(resp[r][1].json.commit,
                             Unmarshal(req[r].body).webhook.HeadCommit.ID)

----------------------------------------------------------------------------
(* C2 *)

\* C2: once the handler has decoded a webhook, the short form it holds is the
\* first 7 characters of a commit id of length >= 7 and the id itself
\* otherwise; and when the handler has ended after a downstream success,
\* triggerBuild has logged the success line with that short form, without
\* aborting the request.
C2_ShortFormNeverAborts ==
    \A r \in Requests :
        /\ (Handled(r) /\ PassesChecks(req[r])) =>
                IsShortFormOf(local[r].commitShort, local[r].webhook.HeadCommit.ID)
        /\ (Ended(r) /\ GotSuccess(r)) =>
            /\ pc[r] # "panicked"
            /\ \E i \in DOMAIN log :
                /\ log[i].fmt = "Build triggered: %s/%s (branch: %s, commit: %s)"
                /\ IsShortFormOf(log[i].commit, local[r].webhook.HeadCommit.ID)

----------------------------------------------------------------------------
(* C3 *)

\* C3: a request whose handler has ended has exactly one response, of status
\* 200, 400, 405 or 500.
C3_ExactlyOneResponse ==
    \A r \in Requests :
        Ended(r) =>
            /\ Len(resp[r]) = 1
            /\ resp[r][1].status \in {StatusOK, StatusBadRequest,
                                      StatusMethodNotAllowed,
                                      StatusInternalServerError}

----------------------------------------------------------------------------
(* C4 *)

\* the URL built for the request's pipeline identifier is one that
\* http.NewRequest accepts
UrlAccepted(rq) ==
    ~UrlParseFails(ApiBase \o buildkiteOrg \o PipelinesSeg
                     \o TrimPrefix(rq.path, WebhookPrefix) \o BuildsSeg)

\* C4 as stated: the number of outbound calls issued equals the number of
\* requests that passed the method, path and JSON checks.
C4_CallsEqualPassedRequests ==
    Len(out) = Cardinality({r \in Requests :
                                Handled(r) /\ PassesChecks(req[r])})

\* C4 as amended: each request that passed the method, path and JSON checks
\* and whose URL http.NewRequest accepts has exactly one outbound call, from
\* the moment its handler reaches client.Do and for ever after, whatever the
\* call returns and whatever the other requests are; every other request
\* has none.
C4_OneCallPerForwardedRequest ==
    \A forwarded \in {{r \in Requests : /\ Handled(r)
                                         /\ PassesChecks(req[r])
                                         /\ UrlAccepted(req[r])}} :
        /\ \A r \in Requests :
            NumCalls(r) = IF r \in forwarded THEN 1 ELSE 0
        /\ Len(out) = Cardinality(forwarded)

\* two identical requests have ended, the call of one of them failed, and
\* each has caused its own outbound call
C4_Witness ==
    \E r1, r2 \in Requests :
        /\ r1 # r2
        /\ req[r1] = req[r2]
        /\ Ended(r1) /\ Ended(r2)
        /\ GotFailure(r1)
        /\ NumCalls(r1) = 1 /\ NumCalls(r2) = 1
        /\ Len(out) = 2

----------------------------------------------------------------------------
(* C5 *)

\* the body cannot be read, is no JSON text, or does not decode
Undecodable(body) ==
    \/ body.read = "err"
    \/ body.syntax # "json"
    \/ Unmarshal(body).err

\* C5: a POST with a pipeline identifier whose body does not decode is
\* answered with one response of status 400 and causes no outbound call.
C5_UndecodableBodyIs400 ==
    \A r \in Requests :
        ( /\ Handled(r)
          /\ req[r].method = "POST"
          /\ TrimPrefix(req[r].path, WebhookPrefix) # <<>>
          /\ Undecodable(req[r].body) ) =>
            /\ pc[r] = "done"
            /\ Len(resp[r]) = 1
            /\ resp[r][1].status = StatusBadRequest
            /\ NumCalls(r) = 0
            /\ reply[r] = NoReply

C5_Witness ==
    \E r \in Requests :
        /\ pc[r] = "done"
        /\ req[r].method = "POST"
        /\ req[r].path = PathSlug
        /\ req[r].body = GarbageBody
        /\ Len(resp[r]) = 1
        /\ resp[r][1].status = StatusBadRequest
        /\ out = <<>>

----------------------------------------------------------------------------
(* C6 *)

\* C6: a POST to "/webhook/" is answered with one response of status 400
\* whatever its body; the body is neither read nor decoded and no outbound
\* call is made.
C6_MissingSlugIs400 ==
    \A r \in Requests :
        (Handled(r) /\ req[r].method = "POST" /\ req[r].path = WebhookPrefix) =>
            /\ pc[r] = "done"
            /\ Len(resp[r]) = 1
            /\ resp[r][1].status = StatusBadRequest
            /\ ~local[r].read
            /\ ~local[r].unmarshalled
            /\ NumCalls(r) = 0

C6_Witness ==
    \E r \in Requests :
        /\ pc[r] = "done"
        /\ req[r].method = "POST"
        /\ req[r].path = WebhookPrefix
        /\ req[r].body = JsonBody(PushEvent(RefsHeadsPrefix \o Main,
                                            SubSeq(FullCommitId, 1, 8)))
        /\ Len(resp[r]) = 1
        /\ resp[r][1].status = StatusBadRequest

----------------------------------------------------------------------------
(* C7 *)

\* C7: a request whose method is not POST is answered with one response of
\* status 405 and text "Method not allowed", whatever its path and body, and
\* causes no outbound call.
C7_NonPostIs405 ==
    \A r \in Requests :
        (Handled(r) /\ req[r].method # "POST") =>
            /\ pc[r] = "done"
            /\ Len(resp[r]) = 1
            /\ resp[r][1].status = StatusMethodNotAllowed
            /\ resp[r][1].text = [fmt |-> "Method not allowed"]
            /\ NumCalls(r) = 0

C7_Witness ==
    \E r \in Requests :
        /\ pc[r] = "done"
        /\ req[r].method = "GET"
        /\ req[r].path = WebhookPrefix
        /\ req[r].body = GarbageBody
        /\ Len(resp[r]) = 1
        /\ resp[r][1].status = StatusMethodNotAllowed

----------------------------------------------------------------------------
(* C8 *)

\* C8: when the outbound call returns a status other than 200 and 201, or a
\* transport error, the handler ends by a return, and the request is
\* answered with one response, never with another: of status 500 and with
\* the text "Failed to trigger build: " followed by an error text that
\* holds the downstream status code and response body, or the transport
\* error text.
C8_DownstreamFailureIs500 ==
    \A r \in Requests :
        GotFailure(r) =>
            /\ pc[r] \in {"returned", "done"}
            /\ Len(resp[r]) = IF pc[r] = "done" THEN 1 ELSE 0
            /\ \A i \in DOMAIN resp[r] :
                /\ resp[r][i].status = StatusInternalServerError
                /\ resp[r][i].text.fmt = "Failed to trigger build: %v"
                /\ IF reply[r].k = "resp"
                   THEN /\ resp[r][i].text.err.fmt = "buildkite API returned %d: %s"
                        /\ resp[r][i].text.err.code = reply[r].code
                        /\ resp[r][i].text.err.body = reply[r].body
                   ELSE /\ resp[r][i].text.err.fmt = "request failed: %w"
                        /\ resp[r][i].text.err.cause = reply[r].text

C8_Witness ==
    \E r \in Requests :
        /\ reply[r] = [body |-> <<"n","o"," ","c","o","m","m","i","t">>,
                       code |-> 422,
                       k |-> "resp"]
        /\ pc[r] = "done"
        /\ Len(resp[r]) = 1
        /\ resp[r][1].status = StatusInternalServerError

----------------------------------------------------------------------------
(* C9 *)

\* C9: every outbound call is a POST to the URL built from the org slug and
\* the pipeline identifier of the request it serves, and its JSON body has
\* commit = the full commit id of the decoded webhook, branch = its ref
\* without a leading "refs/heads/", message = its commit message, author =
\* name and email of its head commit author, and env = exactly
\* FORGEJO_PUSHER, FORGEJO_REPO and FORGEJO_REPO_NAME with the pusher
\* username, the repository full name and the repository name; for a push
\* event these are the values of the JSON text received, also when the
\* pusher is named with a long s, and not the values of members whose names
\* select no field.
C9_OutboundPayload ==
    \A i \in DOMAIN out :
        LET r == out[i].by
            call == out[i].call
            w == Unmarshal(req[r].body).webhook
            p == call.body
            slug == SubSeq(req[r].path, Len(WebhookPrefix) + 1, Len(req[r].path))
        IN  /\ call.method = "POST"
            /\ WebhookPrefix \o slug = req[r].path
            /\ call.url = ApiBase \o buildkiteOrg \o PipelinesSeg
                            \o slug \o BuildsSeg
            /\ p.k = "obj"
            /\ Len(p.m) = 5
            /\ Names(p) = {KeyCommit, KeyBranch, KeyMessage, KeyAuthor, KeyEnv}
            /\ Get(p, KeyCommit) = JStr(w.HeadCommit.ID)
            /\ Get(p, KeyBranch).k = "str"
            /\ IsBranchOf(Get(p, KeyBranch).v, w.Ref)
            /\ Get(p, KeyMessage) = JStr(w.HeadCommit.Message)
            /\ Get(p, KeyAuthor) =
                    JObj(<< Member(KeyName, JStr(w.HeadCommit.Author.Name)),
                            Member(KeyEmail, JStr(w.HeadCommit.Author.Email)) >>)
            /\ Get(p, KeyEnv).k = "obj"
            /\ Len(Get(p, KeyEnv).m) = 3
            /\ Names(Get(p, KeyEnv)) =
                    {KeyForgejoPusher, KeyForgejoRepo, KeyForgejoRepoName}
            /\ Get(Get(p, KeyEnv), KeyForgejoPusher) = JStr(w.Pusher.Username)
            /\ Get(Get(p, KeyEnv), KeyForgejoRepo) = JStr(w.Repository.FullName)
            /\ Get(Get(p, KeyEnv), KeyForgejoRepoName) = JStr(w.Repository.Name)
            /\ req[r].body = JsonBody(LongSPusherEvent) =>
                    /\ Get(p, KeyCommit) = JStr(FullCommitId)
                    /\ Get(p, KeyBranch) = JStr(Main)
                    /\ Get(Get(p, KeyEnv), KeyForgejoPusher) = JStr(PusherName)
            /\ req[r].body = JsonBody(ForeignNamesEvent) =>
                    /\ Get(p, KeyCommit) = JStr(FullCommitId)
                    /\ Get(p, KeyBranch) = JStr(Main)
                    /\ Get(Get(p, KeyEnv), KeyForgejoPusher) = JStr(<<>>)
            /\ \A ref \in Refs, id \in CommitIds :
                req[r].body = JsonBody(PushEvent(ref, id)) =>
                    /\ Get(p, KeyCommit) = JStr(id)
                    /\ IsBranchOf(Get(p, KeyBranch).v, ref)
                    /\ Get(p, KeyMessage) = JStr(CommitMessage)
                    /\ Get(p, KeyAuthor) =
                            JObj(<< Member(KeyName, JStr(AuthorName)),
                                    Member(KeyEmail, JStr(AuthorEmail)) >>)
                    /\ Get(Get(p, KeyEnv), KeyForgejoPusher) = JStr(PusherName)
                    /\ Get(Get(p, KeyEnv), KeyForgejoRepo) = JStr(RepoFullName)
                    /\ Get(Get(p, KeyEnv), KeyForgejoRepoName) = JStr(RepoName)

\* a call has been issued for a push to refs/heads/main whose commit id is
\* longer than its short form
C9_Witness ==
    \E i \in DOMAIN out :
        /\ req[out[i].by].path = PathSlug
        /\ req[out[i].by].body =
                JsonBody(PushEvent(RefsHeadsPrefix \o Main,
                                   SubSeq(FullCommitId, 1, MaxIdLen)))
        /\ Get(out[i].call.body, KeyCommit) =
                JStr(SubSeq(FullCommitId, 1, MaxIdLen))
        /\ Get(out[i].call.body, KeyBranch) = JStr(Main)

----------------------------------------------------------------------------
(* C10 *)

\* the log entry holds the response body of reply rep: the verbose response
\* line, or the failure line, whose error text ends with the body
CarriesResponseBody(entry, rep) ==
    \/ /\ entry.fmt = "Buildkite response: %s"
       /\ entry.body = rep.body
    \/ /\ entry.fmt = "Failed to trigger build: %v"
       /\ entry.err.fmt = "buildkite API returned %d: %s"
       /\ entry.err.body = rep.body

\* C10: with verbose logging enabled, when the handler of a request for
\* which client.Do returned a response has ended, the log holds an entry
\* carrying the raw response body, whatever the status of the response.
C10_ResponseBodyLogged ==
    logVerbose =>
        \A r \in Requests :
            (Ended(r) /\ reply[r].k = "resp") =>
                \E i \in DOMAIN log : CarriesResponseBody(log[i], reply[r])

\* verbose logging is enabled and a call was answered with a failure status
\* and a non-empty body
C10_Witness ==
    /\ logVerbose
    /\ \E r \in Requests :
        /\ reply[r].k = "resp"
        /\ reply[r].code = 422
        /\ reply[r].body # <<>>
        /\ pc[r] = "done"

----------------------------------------------------------------------------
(* C11 *)

\* the positions of the log that hold a received-payload line
ReceivedLines == {i \in DOMAIN log : log[i].fmt = "Received payload: %s"}

\* C11: with verbose logging enabled, a POST with a pipeline identifier whose
\* body has been read has exactly one received-payload line in the log; the
\* line holds the body as received and precedes every line written after
\* decoding (the parse error line, the webhook line), so it is there also
\* when decoding fails and the request is answered 400; at no moment does
\* the log hold a line written after decoding without a received-payload
\* line before it.  With verbose logging disabled the log holds no
\* received-payload line.
C11_RawBodyLoggedBeforeDecoding ==
    /\ logVerbose =>
        \A r \in Requests :
            ( /\ Handled(r)
              /\ req[r].method = "POST"
              /\ TrimPrefix(req[r].path, WebhookPrefix) # <<>>
              /\ local[r].read
              /\ req[r].body.read = "ok" ) =>
                /\ Cardinality(ReceivedLines) = 1
                /\ \A i \in ReceivedLines :
                    /\ log[i].body = req[r].body
                    /\ \A j \in DOMAIN log :
                        log[j].fmt \in
                            {"Error parsing webhook: %v",
                             "Webhook: repo=%s, branch=%s, commit=%s, author=%s"}
                                => i < j
                /\ Undecodable(req[r].body) =>
                    /\ Len(resp[r]) = 1
                    /\ resp[r][1].status = StatusBadRequest
    /\ logVerbose =>
        \A j \in DOMAIN log :
            log[j].fmt \in {"Error parsing webhook: %v",
                            "Webhook: repo=%s, branch=%s, commit=%s, author=%s"}
                => \E i \in ReceivedLines : i < j
    /\ ~logVerbose => ReceivedLines = {}

\* verbose logging is enabled, a body that is no JSON text was read, logged
\* as received and then answered 400
C11_Witness ==
    /\ logVerbose
    /\ \E r \in Requests :
        /\ pc[r] = "done"
        /\ req[r].method = "POST"
        /\ req[r].path = PathSlug
        /\ req[r].body = GarbageBody
        /\ local[r].read
        /\ Len(resp[r]) = 1
        /\ resp[r][1].status = StatusBadRequest
        /\ Len(log) = Len(StartupLog(TRUE)) + 2
        /\ log[Len(log) - 1] =
                [body |-> GarbageBody, fmt |-> "Received payload: %s"]
        /\ log[Len(log)].fmt = "Error parsing webhook: %v"

====
